---- MODULE Spec2Model ----
(***************************************************************************)
(* A model of JSONSchemaNormalizer (src/normaliser.py): the fifteen passes *)
(* of normalize() over JSON values, with the exceptions Python raises on   *)
(* the way, and the processes that call it.                                *)
(*                                                                         *)
(* JSON values are tagged records:                                         *)
(*   null [t |-> "null"], booleans [t |-> "bool", b], numbers              *)
(*   [t |-> "num", h] where h is TWICE the value (so 1 is h = 2 and 1.5 is *)
(*   h = 3; Python's 1 and 1.0 are one value), strings [t |-> "str", s],   *)
(*   lists [t |-> "arr", a] (a sequence) and dicts [t |-> "obj", m] (a     *)
(*   function from key strings to values).                                 *)
(***************************************************************************)
EXTENDS Integers, Sequences, FiniteSets, TLC

VARIABLES
  schema,    \* the argument S the caller passes to normalize
  hashSeed,  \* the string-hash seed of the running process (set iteration order)
  result,    \* outcome of normalize(S) in this process
  again,     \* outcome of normalize(normalize(S)) in this process
  rerun,     \* outcome of normalize(S) in a second process
  notnot,    \* outcome of normalize({"not": {"not": S}}) in this process
  argument,  \* the caller's object S as it is after normalize(S)
  aliased,   \* the object normalize(S) returned is the caller's object S
  test_instances,  \* the corpus handed to validate_equivalence
  verdict,   \* what validate_equivalence(S, normalize(S), test_instances) did
  pc         \* position of the caller

vars == <<schema, hashSeed, result, again, rerun, notnot, argument, aliased,
          test_instances, verdict, pc>>

----------------------------------------------------------------------------
(* JSON values *)

JNull == [t |-> "null"]
JBool(b) == [t |-> "bool", b |-> b]
JNum(n) == [t |-> "num", h |-> 2 * n]
JHalf(k) == [t |-> "num", h |-> k]
JStr(s) == [t |-> "str", s |-> s]
JArr(a) == [t |-> "arr", a |-> a]
JObj(m) == [t |-> "obj", m |-> m]

JTrue == JBool(TRUE)
JFalse == JBool(FALSE)
EmptySchema == JObj(<<>>)
NotEmpty == JObj([not |-> EmptySchema])

IsDict(v) == v.t = "obj"
IsList(v) == v.t = "arr"
IsStr(v) == v.t = "str"
IsBool(v) == v.t = "bool"
IsNumeric(v) == v.t \in {"num", "bool"}

Keys(d) == DOMAIN d.m
Has(d, k) == k \in DOMAIN d.m
Get(d, k) == d.m[k]
Put(d, k, v) == JObj([x \in (DOMAIN d.m) \cup {k} |-> IF x = k THEN v ELSE d.m[x]])
Del(d, k) == JObj([x \in (DOMAIN d.m) \ {k} |-> d.m[x]])
DelAll(d, ks) == JObj([x \in (DOMAIN d.m) \ ks |-> d.m[x]])

Max(a, b) == IF a >= b THEN a ELSE b

(* Python's numeric value of a number or a bool (True is 1, False is 0), doubled. *)
NumVal(v) == IF v.t = "bool" THEN (IF v.b THEN 2 ELSE 0) ELSE v.h

(* Python truthiness: not v. *)
Falsy(v) ==
  CASE v.t = "null" -> TRUE
    [] v.t = "bool" -> ~v.b
    [] v.t = "num" -> v.h = 0
    [] v.t = "str" -> v.s = ""
    [] v.t = "arr" -> v.a = <<>>
    [] v.t = "obj" -> DOMAIN v.m = {}

(* The strings of the model in Python's string order (code points). *)
SortedStrings ==
  <<"", "X", "[1]", "[x", "a", "allOf", "array", "b", "bar", "baz", "boolean",
    "c", "foo", "integer", "not", "null", "number", "object", "string">>

StrRank(s) == CHOOSE i \in 1..Len(SortedStrings) : SortedStrings[i] = s

(* Python's == on two JSON values: numbers and bools compare by value, lists
   element-wise, dicts key-wise. *)
RECURSIVE PyEq(_, _)
PyEq(x, y) ==
  IF IsNumeric(x) /\ IsNumeric(y) THEN NumVal(x) = NumVal(y)
  ELSE IF x.t # y.t THEN FALSE
  ELSE CASE x.t = "arr" ->
              /\ Len(x.a) = Len(y.a)
              /\ \A i \in 1..Len(x.a) : PyEq(x.a[i], y.a[i])
         [] x.t = "obj" ->
              /\ DOMAIN x.m = DOMAIN y.m
              /\ \A k \in DOMAIN x.m : PyEq(x.m[k], y.m[k])
         [] OTHER -> x = y

(* Python's ordering of two values: "lt", "eq", "gt", or "err" where < raises
   TypeError (None, dicts, and values of different kinds). *)
RECURSIVE PyCompare(_, _)
RECURSIVE PyCompareSeq(_, _, _)
PyCompareSeq(a, b, i) ==
  IF i > Len(a) \/ i > Len(b)
  THEN (IF Len(a) < Len(b) THEN "lt" ELSE IF Len(a) > Len(b) THEN "gt" ELSE "eq")
  ELSE IF PyEq(a[i], b[i]) THEN PyCompareSeq(a, b, i + 1)
  ELSE PyCompare(a[i], b[i])

PyCompare(x, y) ==
  IF IsNumeric(x) /\ IsNumeric(y)
  THEN (IF NumVal(x) < NumVal(y) THEN "lt" ELSE IF NumVal(x) > NumVal(y) THEN "gt" ELSE "eq")
  ELSE IF IsStr(x) /\ IsStr(y)
  THEN (IF StrRank(x.s) < StrRank(y.s) THEN "lt"
        ELSE IF StrRank(x.s) > StrRank(y.s) THEN "gt" ELSE "eq")
  ELSE IF IsList(x) /\ IsList(y) THEN PyCompareSeq(x.a, y.a, 1)
  ELSE "err"

Hashable(v) == v.t \notin {"arr", "obj"}

(* x in seq, by ==. *)
InSeq(x, seq) == \E i \in 1..Len(seq) : PyEq(seq[i], x)

(* The distinct members of seq, each at its first occurrence: what a set keeps. *)
RECURSIVE PyDedup(_)
PyDedup(seq) ==
  LET add(front, last) == IF InSeq(last, front) THEN front ELSE Append(front, last)
  IN IF seq = <<>> THEN <<>>
     ELSE add(PyDedup(SubSeq(seq, 1, Len(seq) - 1)), seq[Len(seq)])

(* sorted() raises TypeError iff two of the members cannot be ordered. *)
Sortable(seq) ==
  \A i, j \in 1..Len(seq) : i < j => PyCompare(seq[i], seq[j]) # "err"

RECURSIVE InsertSorted(_, _)
InsertSorted(x, seq) ==
  IF seq = <<>> THEN <<x>>
  ELSE IF PyCompare(x, seq[1]) = "lt" THEN <<x>> \o seq
  ELSE <<seq[1]>> \o InsertSorted(x, Tail(seq))

(* sorted(seq) for a sortable seq (stable). *)
RECURSIVE PySorted(_)
PySorted(seq) ==
  IF seq = <<>> THEN <<>>
  ELSE InsertSorted(seq[Len(seq)], PySorted(SubSeq(seq, 1, Len(seq) - 1)))

----------------------------------------------------------------------------
(* Outcomes: a value or a raised exception, with the normalize calls made. *)

Exc(e) == [t |-> "raise", exc |-> e]
Raised(v) == v.t = "raise"

(* val: the value returned, or Exc(e) when e was raised; calls: the number of
   normalize calls made on the way; depth: the deepest nesting among them. *)
Out(v, c, d) == [val |-> v, calls |-> c, depth |-> d]
Ret(v) == Out(v, 0, 0)

(* Statement sequencing: the outcome of r followed by q, where q is the outcome
   of the next statement on r's value; q does not run when r raised. *)
After(r, q) ==
  IF Raised(r.val) THEN r
  ELSE Out(q.val, r.calls + q.calls, Max(r.depth, q.depth))

(* The outcome r of the calls made, with v for its value. *)
With(r, v) == Out(v, r.calls, r.depth)

(* The keys of a dict as a list of strings. *)
RECURSIVE KeySeq(_)
KeySeq(ks) ==
  LET from(k) == <<JStr(k)>> \o KeySeq(ks \ {k})
  IN IF ks = {} THEN <<>> ELSE from(CHOOSE x \in ks : TRUE)

(* iter(v): the members a for loop or set() visits; TypeError for a value that
   is not iterable. *)
Iter(v) ==
  CASE IsList(v) -> v
    [] IsDict(v) -> JArr(KeySeq(Keys(v)))
    [] v.t \in {"num", "bool", "null"} -> Exc("TypeError")

(* sorted(set(v)) *)
SortedSet(v) ==
  LET sorted(d) == IF Sortable(d) THEN JArr(PySorted(d)) ELSE Exc("TypeError")
      set(it) == IF Raised(it) THEN it
                 ELSE IF \E i \in 1..Len(it.a) : ~Hashable(it.a[i]) THEN Exc("TypeError")
                 ELSE sorted(PyDedup(it.a))
  IN set(Iter(v))

(* seq without its i-th member *)
Without(seq, i) == [j \in 1..(Len(seq) - 1) |-> IF j < i THEN seq[j] ELSE seq[j + 1]]

(* The k-th arrangement of seq. *)
RECURSIVE NthPerm(_, _)
NthPerm(seq, k) ==
  LET from(i) == <<seq[i]>> \o NthPerm(Without(seq, i), k \div Len(seq))
  IN IF seq = <<>> THEN <<>> ELSE from((k % Len(seq)) + 1)

(* The members of a set, given in any order, in one fixed order: None, then
   numbers by value, then strings. *)
RECURSIVE BySlot(_)
BySlot(seq) ==
  LET kind(x) == IF x.t = "null" THEN 0 ELSE IF IsNumeric(x) THEN 1 ELSE 2
      before(x, y) == kind(x) < kind(y) \/ (kind(x) = kind(y) /\ PyCompare(x, y) = "lt")
      from(first) == <<seq[first]>> \o BySlot(Without(seq, first))
  IN IF seq = <<>> THEN <<>>
     ELSE from(CHOOSE i \in 1..Len(seq) :
                 \A j \in 1..Len(seq) : j # i => before(seq[i], seq[j]))

(* Iterating a set of hashable values: the order is that of the hash slots of
   its members, whatever the order they were added in, and the hash of a
   string is decided by the seed of the process. *)
SetIter(seq) == NthPerm(BySlot(seq), hashSeed)

(* a >= b *)
PyGe(a, b) ==
  LET ge(c) == IF c = "err" THEN Exc("TypeError") ELSE JBool(c \in {"gt", "eq"})
  IN ge(PyCompare(a, b))

(* k in v, for a keyword k. In a string it is the substring test: of the strings
   of the model (SortedStrings) only k itself contains k. *)
PyContains(v, k) ==
  CASE IsDict(v) -> JBool(Has(v, k))
    [] IsList(v) -> JBool(InSeq(JStr(k), v.a))
    [] IsStr(v) -> JBool(v.s = k)
    [] v.t \in {"num", "bool", "null"} -> Exc("TypeError")

(* len(v) *)
PyLen(v) ==
  CASE IsDict(v) -> Cardinality(Keys(v))
    [] IsList(v) -> Len(v.a)
    [] IsStr(v) -> Len(v.s)

----------------------------------------------------------------------------
(* The passes that make no recursive call *)

normalize_boolean_schemas(s) == Ret(s)

metadata_keywords ==
  {"title", "description", "$comment", "examples",
   "readOnly", "writeOnly", "deprecated", "$id", "$schema"}

remove_redundant_metadata(s) == Ret(DelAll(s, metadata_keywords))

all_types == {"null", "boolean", "object", "array", "number", "string", "integer"}

(* seq.remove(x): seq without the first member equal to x *)
RemoveFirst(seq, x) ==
  Without(seq, CHOOSE j \in 1..Len(seq) :
                 PyEq(seq[j], x) /\ \A l \in 1..(j - 1) : ~PyEq(seq[l], x))

(* What the type pass leaves once result["type"] is the list t2, or the
   exception raised in making it. *)
type_merged(s, t2) ==
  LET single(t3) == IF Len(t3) = 1 THEN t3[1] ELSE JArr(t3)
      merged(names, both) ==
        Ret(Put(IF both /\ ~Has(s, "multipleOf") THEN Put(s, "multipleOf", JNum(1)) ELSE s,
                "type",
                single(IF both THEN RemoveFirst(names, JStr("integer")) ELSE names)))
  IN
  IF Raised(t2) THEN Ret(t2)
  ELSE IF {t2.a[i] : i \in 1..Len(t2.a)} = {JStr(n) : n \in all_types}
  THEN Ret(Exc("KeyError"))   \* del result["type"], then result["type"] is read
  ELSE merged(t2.a, InSeq(JStr("integer"), t2.a) /\ InSeq(JStr("number"), t2.a))

(* result["type"] as a list: a string is wrapped *)
type_list(t0) == IF IsStr(t0) THEN JArr(<<t0>>) ELSE t0

(* normalize_type_constraints with sorted(result["type"]) in place of
   sorted(set(result["type"])): duplicates stay. *)
normalize_type_constraints_no_set(s) ==
  LET sorted(t1, t2) == IF Raised(t2) THEN t2 ELSE JArr(PySorted(Iter(t1).a))
      listed(t1) == type_merged(s, sorted(t1, SortedSet(t1)))
  IN IF ~Has(s, "type") THEN Ret(s) ELSE listed(type_list(Get(s, "type")))

normalize_type_constraints(s) ==
  IF ~Has(s, "type") THEN Ret(s)
  ELSE type_merged(s, SortedSet(type_list(Get(s, "type"))))

(* type_values = result.get("type", []), a string wrapped in a list *)
type_values(s) ==
  IF ~Has(s, "type") THEN <<>>
  ELSE IF IsStr(Get(s, "type")) THEN <<Get(s, "type")>>
  ELSE Get(s, "type").a

(* if "name" not in type_values and type_values: the pass returns at once *)
other_type(s, names) ==
  LET skip(tv) == tv # <<>> /\ \A n \in names : ~InSeq(JStr(n), tv)
  IN skip(type_values(s))

number_exclusive(s, inclusive, exclusive) ==
  IF Has(s, inclusive) /\ Has(s, exclusive) /\ IsBool(Get(s, exclusive))
  THEN IF Get(s, exclusive).b
       THEN Del(Put(s, exclusive, Get(s, inclusive)), inclusive)
       ELSE Del(s, exclusive)
  ELSE s

number_multipleOf(s) ==
  LET integer_only(ty) ==
        \/ ty = JStr("integer")
        \/ IsList(ty) /\ InSeq(JStr("integer"), ty.a) /\ ~InSeq(JStr("number"), ty.a)
  IN
  IF /\ Has(s, "multipleOf") /\ PyEq(Get(s, "multipleOf"), JNum(1))
     /\ Has(s, "type") /\ integer_only(Get(s, "type"))
  THEN Ret(Del(s, "multipleOf"))
  ELSE Ret(s)

normalize_number_constraints(s) ==
  IF other_type(s, {"number", "integer"}) THEN Ret(s)
  ELSE number_multipleOf(number_exclusive(number_exclusive(s, "minimum", "exclusiveMinimum"),
                                          "maximum", "exclusiveMaximum"))

(* What the string operations of the pattern rule find in each pattern of the
   model: wrapped: it starts with ^( and ends with )$; simple: the text between
   has a | and none of []{}()?*.+ ; alts: its non-empty pieces between the |;
   matches: the strings of the corpus the regular expression matches. *)
Patterns ==
  <<[p |-> "^(foo|bar)$", wrapped |-> TRUE, simple |-> TRUE, alts |-> <<"foo", "bar">>,
     matches |-> {"foo", "bar"}],
    [p |-> "^(b|a|)$", wrapped |-> TRUE, simple |-> TRUE, alts |-> <<"b", "a">>,
     matches |-> {"a", ""}],
    [p |-> "^(fo+|bar)$", wrapped |-> TRUE, simple |-> FALSE, alts |-> <<>>,
     matches |-> {"foo", "bar"}],
    [p |-> "^foo", wrapped |-> FALSE, simple |-> FALSE, alts |-> <<>>,
     matches |-> {"foo"}]>>

PatternInfo(p) == Patterns[CHOOSE i \in 1..Len(Patterns) : Patterns[i].p = p]

string_lengths(s) ==
  LET drop(ge) == IF Raised(ge) THEN Ret(ge)
                  ELSE IF ge.b THEN Ret(Del(s, "maxLength")) ELSE Ret(s)
  IN IF Has(s, "minLength") /\ Has(s, "maxLength")
     THEN drop(PyGe(Get(s, "minLength"), Get(s, "maxLength")))
     ELSE Ret(s)

string_pattern(s) ==
  LET enum(info) ==
        IF info.wrapped /\ info.simple
        THEN Ret(Del(Put(s, "enum", JArr([i \in 1..Len(info.alts) |-> JStr(info.alts[i])])),
                     "pattern"))
        ELSE Ret(s)
  IN IF ~Has(s, "pattern") THEN Ret(s)
     ELSE IF ~IsStr(Get(s, "pattern")) THEN Ret(Exc("AttributeError"))
     ELSE enum(PatternInfo(Get(s, "pattern").s))

normalize_string_constraints(s) ==
  LET pattern(r) == After(r, string_pattern(r.val))
  IN IF other_type(s, {"string"}) THEN Ret(s) ELSE pattern(string_lengths(s))

(* json.dumps(v, sort_keys=True) of the lists and dicts of the model. *)
JsonText ==
  <<[v |-> JArr(<<>>), s |-> "[]"],
    [v |-> JArr(<<JNum(1)>>), s |-> "[1]"],
    [v |-> EmptySchema, s |-> "{}"]>>

(* the strings of SortedStrings that start with [ or { and are not JSON texts *)
NotJson == {"[x"}

dumps(v) == JStr(JsonText[CHOOSE i \in 1..Len(JsonText) : JsonText[i].v = v].s)

(* json.loads of a string that starts with { or [, the string itself when that raises *)
loads_or_keep(x) ==
  IF IsStr(x) /\ \E i \in 1..Len(JsonText) : JsonText[i].s = x.s
  THEN JsonText[CHOOSE i \in 1..Len(JsonText) : JsonText[i].s = x.s].v
  ELSE IF IsStr(x) /\ x.s \in NotJson
       THEN x   \* json.loads raises, the bare except keeps the string
       ELSE x   \* not a string, or a string that starts with neither { nor [

normalize_enum_and_const(s) ==
  LET hashed(it) == [i \in 1..Len(it) |-> IF Hashable(it[i]) THEN it[i] ELSE dumps(it[i])]
      loaded(enum_set) == [i \in 1..Len(enum_set) |-> loads_or_keep(enum_set[i])]
      ordered(enum_list) == IF Sortable(enum_list) THEN PySorted(enum_list) ELSE enum_list
      simplified(enum) ==
        IF Len(enum) = 1 THEN Ret(Del(Put(s, "const", enum[1]), "enum"))
        ELSE IF enum = <<>> THEN Ret(Del(s, "enum"))
        ELSE Ret(Put(s, "enum", JArr(enum)))
      deduplicated(it) ==
        IF Raised(it) THEN Ret(Exc("TypeError"))   \* the try swallows it, len() raises it again
        ELSE simplified(ordered(loaded(SetIter(PyDedup(hashed(it.a))))))
  IN IF ~Has(s, "enum") THEN Ret(s) ELSE deduplicated(Iter(Get(s, "enum")))

normalize_reference_resolution(s) == Ret(s)

array_keywords == {"required", "enum", "allOf", "anyOf", "oneOf"}
object_keywords == {"properties", "patternProperties", "dependencies"}

cleanup_empty_keywords(s) ==
  Ret(DelAll(s, {k \in (array_keywords \cup object_keywords) \cap Keys(s) : Falsy(Get(s, k))}))

----------------------------------------------------------------------------
(* The passes that call normalize on nested schemas *)

RECURSIVE normalize(_)

(* [self.normalize(x) for x in seq]: left to right, up to the first raise. *)
RECURSIVE normalize_each(_)
normalize_each(seq) ==
  LET append(front, r) ==
        Out(IF Raised(r.val) THEN r.val ELSE JArr(Append(front.val.a, r.val)),
            front.calls + r.calls, Max(front.depth, r.depth))
      last(front) == IF Raised(front.val) THEN front
                     ELSE append(front, normalize(seq[Len(seq)]))
  IN IF seq = <<>> THEN Ret(JArr(<<>>))
     ELSE last(normalize_each(SubSeq(seq, 1, Len(seq) - 1)))

(* The entries of dict d under the keys ks, each normalized, those that
   normalize to {} left out. The order in which a dict is walked is not
   modelled: when an entry raises, the walk ends there. *)
RECURSIVE normalize_entries(_, _)
normalize_entries(d, ks) ==
  LET put(k, r, rest) ==
        Out(IF Raised(rest.val) THEN rest.val
            ELSE IF r.val = EmptySchema THEN rest.val
            ELSE Put(rest.val, k, r.val),
            r.calls + rest.calls, Max(r.depth, rest.depth))
      entry(k, r) == IF Raised(r.val) THEN r ELSE put(k, r, normalize_entries(d, ks \ {k}))
      walk(k) == entry(k, normalize(Get(d, k)))
  IN IF ks = {} THEN Ret(EmptySchema) ELSE walk(CHOOSE x \in ks : TRUE)

(* for key, value in other.items(): if key not in result: result[key] = value *)
merge_missing(s, other) ==
  IF ~IsDict(other) THEN Exc("AttributeError")
  ELSE JObj([k \in Keys(s) \cup Keys(other) |-> IF Has(s, k) THEN Get(s, k) ELSE Get(other, k)])

(* s with r's value under k, k removed when that value is {} *)
put_or_drop(s, k, r) ==
  With(r, IF Raised(r.val) THEN r.val
          ELSE IF r.val = EmptySchema THEN Del(s, k) ELSE Put(s, k, r.val))

(* normalize_keyword with the call made on {"allOf": [result[k]]}, which is
   not a part of the node. *)
normalize_keyword_wrapped(s, k) ==
  put_or_drop(s, k, normalize(JObj("allOf" :> JArr(<<Get(s, k)>>))))

(* result[k] = self.normalize(result[k]); if result[k] == {}: del result[k] *)
normalize_keyword(s, k) == put_or_drop(s, k, normalize(Get(s, k)))

array_items(s) ==
  LET listed(r) ==
        With(r, IF Raised(r.val) THEN r.val
                ELSE IF \A i \in 1..Len(r.val.a) : r.val.a[i] = EmptySchema
                THEN Del(s, "items")     \* items = {}, which is empty, so it is removed
                ELSE Put(s, "items", r.val))
  IN IF ~Has(s, "items") THEN Ret(s)
     ELSE IF IsDict(Get(s, "items")) THEN normalize_keyword(s, "items")
     ELSE IF IsList(Get(s, "items")) THEN listed(normalize_each(Get(s, "items").a))
     ELSE Ret(s)

(* additionalItems and additionalProperties: a dict is normalized, True removed *)
additional_keyword(s, k) ==
  IF ~Has(s, k) THEN Ret(s)
  ELSE IF IsDict(Get(s, k)) THEN normalize_keyword(s, k)
  ELSE IF Get(s, k) = JTrue THEN Ret(Del(s, k))
  ELSE Ret(s)

array_additionalItems(s) == additional_keyword(s, "additionalItems")

array_lengths(s) ==
  LET drop0(r) == IF Has(r, "minItems") /\ PyEq(Get(r, "minItems"), JNum(0))
                  THEN Del(r, "minItems") ELSE r
      collapse(ge) ==
        IF Raised(ge) THEN Ret(ge)
        ELSE IF ge.b THEN Ret(drop0(Del(Put(s, "minItems", Get(s, "maxItems")), "maxItems")))
        ELSE Ret(drop0(s))
  IN IF Has(s, "minItems") /\ Has(s, "maxItems")
     THEN collapse(PyGe(Get(s, "minItems"), Get(s, "maxItems")))
     ELSE Ret(drop0(s))

array_contains(s) ==
  IF Has(s, "contains") THEN normalize_keyword(s, "contains") ELSE Ret(s)

normalize_array_constraints(s) ==
  LET additionalItems(r) == After(r, array_additionalItems(r.val))
      lengths(r) == After(r, array_lengths(r.val))
      contains(r) == After(r, array_contains(r.val))
  IN IF other_type(s, {"array"}) THEN Ret(s)
     ELSE contains(lengths(additionalItems(array_items(s))))

(* properties and patternProperties *)
object_mapping(s, k) ==
  IF ~Has(s, k) THEN Ret(s)
  ELSE IF ~IsDict(Get(s, k)) THEN Ret(Exc("AttributeError"))
  ELSE put_or_drop(s, k, normalize_entries(Get(s, k), Keys(Get(s, k))))

object_properties(s) == object_mapping(s, "properties")
object_patternProperties(s) == object_mapping(s, "patternProperties")
object_additionalProperties(s) == additional_keyword(s, "additionalProperties")

(* prop in result["properties"], for a member of required *)
InProperties(prop, props) == IsStr(prop) /\ Has(props, prop.s)

object_required(s) ==
  LET keep(prop) == InProperties(prop, Get(s, "properties"))
      kept(required) == IF required # <<>> THEN Ret(Put(s, "required", JArr(required)))
                        ELSE Ret(Del(s, "required"))
      filtered(sorted) ==
        IF Raised(sorted) THEN Ret(sorted)
        ELSE kept(IF Has(s, "properties") THEN SelectSeq(sorted.a, keep) ELSE sorted.a)
  IN IF ~Has(s, "required") THEN Ret(s)
     ELSE filtered(SortedSet(Get(s, "required")))

object_minProperties(s) ==
  IF Has(s, "minProperties") /\ PyEq(Get(s, "minProperties"), JNum(0))
  THEN Ret(Del(s, "minProperties")) ELSE Ret(s)

normalize_object_constraints(s) ==
  LET patternProperties(r) == After(r, object_patternProperties(r.val))
      additionalProperties(r) == After(r, object_additionalProperties(r.val))
      required(r) == After(r, object_required(r.val))
      minProperties(r) == After(r, object_minProperties(r.val))
  IN IF other_type(s, {"object"}) THEN Ret(s)
     ELSE minProperties(required(additionalProperties(patternProperties(
            object_properties(s)))))

(* The loop of the allOf pass over the branches: each is normalized, {} is
   skipped, a nested allOf is spliced in. *)
RECURSIVE allOf_subschemas(_)
allOf_subschemas(seq) ==
  LET out(front, r, v) == Out(v, front.calls + r.calls, Max(front.depth, r.depth))
      splice(front, r, nested) ==
        IF Raised(nested) THEN out(front, r, nested)
        ELSE IF ~nested.b THEN out(front, r, JArr(Append(front.val.a, r.val)))
        ELSE IF ~IsDict(r.val) THEN out(front, r, Exc("TypeError"))
        ELSE out(front, r, JArr(front.val.a \o Get(r.val, "allOf").a))
      branch(front, r) ==
        IF Raised(r.val) THEN out(front, r, r.val)
        ELSE IF r.val = EmptySchema THEN out(front, r, front.val)
        ELSE splice(front, r, PyContains(r.val, "allOf"))
      last(front) == IF Raised(front.val) THEN front
                     ELSE branch(front, normalize(seq[Len(seq)]))
  IN IF seq = <<>> THEN Ret(JArr(<<>>))
     ELSE last(allOf_subschemas(SubSeq(seq, 1, Len(seq) - 1)))

(* The properties of the parent and of the single branch, merged. *)
allOf_merge_properties(mine, theirs) ==
  JObj([prop \in Keys(mine) \cup Keys(theirs) |->
          IF ~Has(theirs, prop) THEN Get(mine, prop)
          ELSE IF ~Has(mine, prop) THEN Get(theirs, prop)
          ELSE JObj([allOf |-> JArr(<<Get(mine, prop), Get(theirs, prop)>>)])])

(* What the merge of the single branch leaves under key. *)
allOf_merge_key(s, single, key) ==
  IF ~Has(single, key) THEN Get(s, key)
  ELSE IF ~Has(s, key) THEN Get(single, key)
  ELSE IF key \in {"required", "type"} /\ IsList(Get(single, key)) /\ IsList(Get(s, key))
  THEN SortedSet(JArr(Get(s, key).a \o Get(single, key).a))
  ELSE IF key = "properties" /\ IsDict(Get(single, key)) /\ IsDict(Get(s, key))
  THEN allOf_merge_properties(Get(s, key), Get(single, key))
  ELSE Get(s, key)

allOf_merge(s, single) ==
  LET merged(m) == IF \E k \in DOMAIN m : Raised(m[k]) THEN Exc("TypeError") ELSE JObj(m)
  IN IF ~IsDict(single) THEN Exc("AttributeError")
     ELSE merged([k \in Keys(s) \cup Keys(single) |-> allOf_merge_key(s, single, k)])

(* normalize_allOf without the merge of a single branch: the allOf of one
   branch is kept. *)
normalize_allOf_no_merge(s) ==
  LET kept(r) ==
        IF Raised(r.val) THEN r
        ELSE IF r.val.a = <<>> THEN With(r, Del(s, "allOf"))
        ELSE With(r, Put(s, "allOf", r.val))
      branches(it) == IF Raised(it) THEN Ret(it) ELSE kept(allOf_subschemas(it.a))
  IN IF ~Has(s, "allOf") THEN Ret(s) ELSE branches(Iter(Get(s, "allOf")))

normalize_allOf(s) ==
  LET kept(r) ==
        IF Raised(r.val) THEN r
        ELSE IF r.val.a = <<>> THEN With(r, Del(s, "allOf"))
        ELSE IF Len(r.val.a) = 1 THEN With(r, allOf_merge(Del(s, "allOf"), r.val.a[1]))
        ELSE With(r, Put(s, "allOf", r.val))
      branches(it) == IF Raised(it) THEN Ret(it) ELSE kept(allOf_subschemas(it.a))
  IN IF ~Has(s, "allOf") THEN Ret(s) ELSE branches(Iter(Get(s, "allOf")))

(* The loop of the anyOf/oneOf pass over the branches: {} is skipped. *)
RECURSIVE anyOf_oneOf_subschemas(_)
anyOf_oneOf_subschemas(seq) ==
  LET append(front, r) ==
        Out(IF Raised(r.val) THEN r.val
            ELSE IF r.val = EmptySchema THEN front.val
            ELSE JArr(Append(front.val.a, r.val)),
            front.calls + r.calls, Max(front.depth, r.depth))
      last(front) == IF Raised(front.val) THEN front
                     ELSE append(front, normalize(seq[Len(seq)]))
  IN IF seq = <<>> THEN Ret(JArr(<<>>))
     ELSE last(anyOf_oneOf_subschemas(SubSeq(seq, 1, Len(seq) - 1)))

(* all("const" in subschema and len(subschema) == 1 for subschema in subschemas),
   from member i on: JBool, or the TypeError of the first member that raises. *)
RECURSIVE all_const(_, _)
all_const(seq, i) ==
  LET member(has) ==
        IF Raised(has) THEN has
        ELSE IF ~has.b \/ PyLen(seq[i]) # 1 THEN JFalse
        ELSE all_const(seq, i + 1)
  IN IF i > Len(seq) THEN JTrue ELSE member(PyContains(seq[i], "const"))

(* One round of the loop over ["anyOf", "oneOf"]; returned: the function has
   returned from inside the loop. *)
anyOf_oneOf_keyword(s, keyword) ==
  LET done(v, r, ret) == [val |-> v, calls |-> r.calls, depth |-> r.depth, returned |-> ret]
      enum(r, subschemas, consts) ==
        IF Raised(consts) THEN done(consts, r, FALSE)
        ELSE IF ~consts.b THEN done(Put(s, keyword, r.val), r, FALSE)
        ELSE IF \E i \in 1..Len(subschemas) : ~IsDict(subschemas[i])
        THEN done(Exc("TypeError"), r, FALSE)      \* subschema["const"] of a list or a string
        ELSE done(Put(Del(s, keyword), "enum",
                      JArr([i \in 1..Len(subschemas) |-> Get(subschemas[i], "const")])),
                  r, FALSE)
      simplified(r, subschemas) ==
        IF subschemas = <<>> THEN done(NotEmpty, r, TRUE)
        ELSE IF Len(subschemas) = 1
        THEN done(merge_missing(Del(s, keyword), subschemas[1]), r, FALSE)
        ELSE IF keyword # "oneOf" THEN done(Put(s, keyword, r.val), r, FALSE)
        ELSE enum(r, subschemas, all_const(subschemas, 1))
      kept(r) == IF Raised(r.val) THEN done(r.val, r, FALSE) ELSE simplified(r, r.val.a)
      branches(it) == IF Raised(it) THEN done(it, Ret(it), FALSE)
                      ELSE kept(anyOf_oneOf_subschemas(it.a))
  IN IF ~Has(s, keyword) THEN done(s, Ret(s), FALSE)
     ELSE branches(Iter(Get(s, keyword)))

normalize_anyOf_oneOf(s) ==
  LET both(a, o) == Out(o.val, a.calls + o.calls, Max(a.depth, o.depth))
      oneOf(a) == IF Raised(a.val) \/ a.returned THEN Out(a.val, a.calls, a.depth)
                  ELSE both(a, anyOf_oneOf_keyword(a.val, "oneOf"))
  IN oneOf(anyOf_oneOf_keyword(s, "anyOf"))

(* The cases of the not pass other than not-{}: r is the outcome of
   normalizing the subschema. *)
not_double(s, r) ==
  LET inner(has) ==
        IF Raised(has) THEN With(r, has)
        ELSE IF has.b /\ PyLen(r.val) = 1
        THEN IF ~IsDict(r.val) THEN With(r, Exc("TypeError"))   \* subschema["not"]
             ELSE With(r, merge_missing(Del(s, "not"), Get(r.val, "not")))
        ELSE With(r, Put(s, "not", r.val))
  IN inner(PyContains(r.val, "not"))

(* normalize_not taking a not of {} for an empty keyword and removing it. *)
normalize_not_removes_empty(s) ==
  LET subschema(r) ==
        IF Raised(r.val) THEN r
        ELSE IF r.val = EmptySchema THEN With(r, Del(s, "not"))
        ELSE not_double(s, r)
  IN IF ~Has(s, "not") THEN Ret(s) ELSE subschema(normalize(Get(s, "not")))

normalize_not(s) ==
  LET subschema(r) ==
        IF Raised(r.val) THEN r
        ELSE IF r.val = EmptySchema THEN With(r, NotEmpty)
        ELSE not_double(s, r)
  IN IF ~Has(s, "not") THEN Ret(s) ELSE subschema(normalize(Get(s, "not")))

(* result[k] = self.normalize(result[k]) where k is present *)
if_then_else_normalize(s, k) ==
  LET put(r) == With(r, IF Raised(r.val) THEN r.val ELSE Put(s, k, r.val))
  IN IF ~Has(s, k) THEN Ret(s) ELSE put(normalize(Get(s, k)))

if_then_else_if(s) == if_then_else_normalize(s, "if")
if_then_else_then(s) == if_then_else_normalize(s, "then")
if_then_else_else(s) == if_then_else_normalize(s, "else")

(* result["allOf"] = [x], or result["allOf"].append(x) *)
allOf_append(s, x) ==
  IF ~Has(s, "allOf") THEN Put(s, "allOf", JArr(<<x>>))
  ELSE IF IsList(Get(s, "allOf")) THEN Put(s, "allOf", JArr(Append(Get(s, "allOf").a, x)))
  ELSE Exc("AttributeError")

(* The special cases, once if, then and else are normalized. *)
if_then_else_cases(s) ==
  LET cases(has_then, has_else, rest) ==
        IF Get(s, "if") = EmptySchema
        THEN IF has_then /\ ~has_else THEN Ret(allOf_append(rest, Get(s, "then")))
             ELSE IF has_then /\ has_else THEN Ret(merge_missing(rest, Get(s, "then")))
             ELSE Ret(s)
        ELSE IF Get(s, "if") = NotEmpty
        THEN IF has_then /\ ~has_else THEN Ret(rest)
             ELSE IF has_else /\ ~has_then THEN Ret(allOf_append(rest, Get(s, "else")))
             ELSE IF has_then /\ has_else THEN Ret(merge_missing(rest, Get(s, "else")))
             ELSE Ret(s)
        ELSE Ret(s)
  IN cases(Has(s, "then"), Has(s, "else"), DelAll(s, {"if", "then", "else"}))

normalize_if_then_else(s) ==
  LET then(r) == After(r, if_then_else_then(r.val))
      else(r) == After(r, if_then_else_else(r.val))
      cases(r) == After(r, if_then_else_cases(r.val))
  IN IF ~Has(s, "if") THEN Ret(DelAll(s, {"then", "else"}))
     ELSE cases(else(then(if_then_else_if(s))))

(* The loop of the dependencies pass over the entries under the keys ks. *)
RECURSIVE dependencies_entries(_, _)
dependencies_entries(d, ks) ==
  LET put(prop, r, rest) ==
        Out(IF Raised(rest.val) THEN rest.val
            ELSE IF r.val = EmptySchema THEN rest.val
            ELSE Put(rest.val, prop, r.val),
            r.calls + rest.calls, Max(r.depth, rest.depth))
      entry(prop, r) == IF Raised(r.val) THEN r
                        ELSE put(prop, r, dependencies_entries(d, ks \ {prop}))
      dependency(dep) ==
        IF IsList(dep) THEN Ret(IF dep.a = <<>> THEN EmptySchema ELSE SortedSet(dep))
        ELSE IF IsDict(dep) THEN normalize(dep)
        ELSE Ret(EmptySchema)
      walk(prop) == entry(prop, dependency(Get(d, prop)))
  IN IF ks = {} THEN Ret(EmptySchema) ELSE walk(CHOOSE x \in ks : TRUE)

normalize_dependencies(s) ==
  IF ~Has(s, "dependencies") THEN Ret(s)
  ELSE IF ~IsDict(Get(s, "dependencies")) THEN Ret(Exc("AttributeError"))
  ELSE put_or_drop(s, "dependencies",
                   dependencies_entries(Get(s, "dependencies"), Keys(Get(s, "dependencies"))))

(* The i-th pass of normalize, in the order it applies them. *)
normalize_pass(i, s) ==
  CASE i = 1 -> normalize_boolean_schemas(s)
    [] i = 2 -> remove_redundant_metadata(s)
    [] i = 3 -> normalize_type_constraints(s)
    [] i = 4 -> normalize_number_constraints(s)
    [] i = 5 -> normalize_string_constraints(s)
    [] i = 6 -> normalize_array_constraints(s)
    [] i = 7 -> normalize_object_constraints(s)
    [] i = 8 -> normalize_enum_and_const(s)
    [] i = 9 -> normalize_allOf(s)
    [] i = 10 -> normalize_anyOf_oneOf(s)
    [] i = 11 -> normalize_not(s)
    [] i = 12 -> normalize_if_then_else(s)
    [] i = 13 -> normalize_dependencies(s)
    [] i = 14 -> normalize_reference_resolution(s)
    [] i = 15 -> cleanup_empty_keywords(s)

(* The passes from the i-th on, applied in order to the outcome r of those
   before; a pass that raises ends the call. *)
RECURSIVE normalize_from(_, _)
normalize_from(r, i) ==
  IF i > 15 \/ Raised(r.val) THEN r
  ELSE normalize_from(After(r, normalize_pass(i, r.val)), i + 1)

normalize(s) ==
  LET called(r) == Out(r.val, r.calls + 1, r.depth + 1)
  IN IF s = JTrue THEN Out(EmptySchema, 1, 1)
     ELSE IF s = JFalse THEN Out(NotEmpty, 1, 1)
     ELSE IF ~IsDict(s) THEN Out(s, 1, 1)
     ELSE called(normalize_from(Ret(s), 1))

(* Dicts of one and of two keys, and lists of strings. *)
Strs(seq) == JArr([i \in 1..Len(seq) |-> JStr(seq[i])])
Schema1(k, v) == JObj(k :> v)
Schema2(k1, v1, k2, v2) == JObj(k1 :> v1 @@ k2 :> v2)

----------------------------------------------------------------------------
(* Validation: whether schema s accepts instance x, for the keywords below. *)

Corpus ==
  <<JStr("foo"), JStr("bar"), JStr("a"), JStr(""), JNum(0), JNum(1), JHalf(3),
    JNull, JTrue, JArr(<<>>), JArr(<<JNum(1)>>), JArr(<<JStr("foo"), JStr("a")>>),
    EmptySchema, Schema1("foo", JNum(1)), Schema1("foo", JStr("a")),
    Schema1("bar", JNum(1))>>

TypeMatches(name, x) ==
  CASE name = "null" -> x.t = "null"
    [] name = "boolean" -> x.t = "bool"
    [] name = "object" -> x.t = "obj"
    [] name = "array" -> x.t = "arr"
    [] name = "string" -> x.t = "str"
    [] name = "number" -> x.t = "num"
    [] name = "integer" -> x.t = "num" /\ x.h % 2 = 0

Annotations == metadata_keywords \cup {"default"}

(* The schemas whose keywords all have a validation rule below, in the shape
   the rule expects. *)
RECURSIVE InVocabulary(_)
RECURSIVE KeywordInVocabulary(_, _)
InVocabulary(s) ==
  \/ IsBool(s)
  \/ IsDict(s) /\ \A k \in Keys(s) : KeywordInVocabulary(k, Get(s, k))

KeywordInVocabulary(k, v) ==
  LET strings(l) == IsList(l) /\ \A i \in 1..Len(l.a) : IsStr(l.a[i]) IN
  CASE k = "type" ->
         \/ IsStr(v) /\ v.s \in all_types
         \/ strings(v) /\ \A i \in 1..Len(v.a) : v.a[i].s \in all_types
    [] k = "enum" -> IsList(v)
    [] k = "const" -> TRUE
    [] k \in {"minLength", "maxLength", "minItems", "maxItems"} -> v.t = "num" /\ v.h % 2 = 0 /\ v.h >= 0
    [] k \in {"minimum", "maximum", "exclusiveMinimum", "exclusiveMaximum"} -> v.t = "num"
    [] k = "multipleOf" -> v.t = "num" /\ v.h > 0
    [] k = "pattern" -> IsStr(v)
    [] k = "required" -> strings(v)
    [] k = "properties" -> IsDict(v) /\ \A q \in Keys(v) : InVocabulary(Get(v, q))
    [] k \in {"items", "contains", "additionalProperties", "not", "if", "then", "else"} ->
         InVocabulary(v)
    [] k \in {"allOf", "anyOf", "oneOf"} ->
         IsList(v) /\ v.a # <<>> /\ \A i \in 1..Len(v.a) : InVocabulary(v.a[i])
    [] OTHER -> k \in Annotations

RECURSIVE Accepts(_, _)
RECURSIVE KeywordAccepts(_, _, _)
Accepts(s, x) ==
  IF IsBool(s) THEN s.b
  ELSE \A k \in Keys(s) : KeywordAccepts(s, k, x)

KeywordAccepts(s, k, x) ==
  LET v == Get(s, k)
      count(l) == Cardinality({i \in 1..Len(l) : Accepts(l[i], x)})
  IN
  CASE k = "type" ->
         IF IsStr(v) THEN TypeMatches(v.s, x)
         ELSE \E i \in 1..Len(v.a) : TypeMatches(v.a[i].s, x)
    [] k = "enum" -> \E i \in 1..Len(v.a) : v.a[i] = x
    [] k = "const" -> v = x
    [] k = "minLength" -> IsStr(x) => 2 * Len(x.s) >= v.h
    [] k = "maxLength" -> IsStr(x) => 2 * Len(x.s) <= v.h
    [] k = "pattern" -> IsStr(x) => x.s \in PatternInfo(v.s).matches
    [] k = "minItems" -> IsList(x) => 2 * Len(x.a) >= v.h
    [] k = "maxItems" -> IsList(x) => 2 * Len(x.a) <= v.h
    [] k = "items" -> IsList(x) => \A i \in 1..Len(x.a) : Accepts(v, x.a[i])
    [] k = "contains" -> IsList(x) => \E i \in 1..Len(x.a) : Accepts(v, x.a[i])
    [] k = "required" -> IsDict(x) => \A i \in 1..Len(v.a) : Has(x, v.a[i].s)
    [] k = "properties" ->
         IsDict(x) => \A q \in Keys(v) \cap Keys(x) : Accepts(Get(v, q), Get(x, q))
    [] k = "additionalProperties" ->
         IsDict(x) =>
           \A q \in Keys(x) \ (IF Has(s, "properties") THEN Keys(Get(s, "properties")) ELSE {}) :
             Accepts(v, Get(x, q))
    [] k = "minimum" -> x.t = "num" => x.h >= v.h
    [] k = "maximum" -> x.t = "num" => x.h <= v.h
    [] k = "exclusiveMinimum" -> x.t = "num" => x.h > v.h
    [] k = "exclusiveMaximum" -> x.t = "num" => x.h < v.h
    [] k = "multipleOf" -> x.t = "num" => x.h % v.h = 0
    [] k = "allOf" -> count(v.a) = Len(v.a)
    [] k = "anyOf" -> count(v.a) >= 1
    [] k = "oneOf" -> count(v.a) = 1
    [] k = "not" -> ~Accepts(v, x)
    [] k = "if" ->
         IF Accepts(v, x) THEN (Has(s, "then") => Accepts(Get(s, "then"), x))
         ELSE (Has(s, "else") => Accepts(Get(s, "else"), x))
    [] OTHER -> TRUE   \* then and else are read by if; annotations accept

----------------------------------------------------------------------------
(* The schemas the caller passes *)

MaxNest == 12     \* deepest chain of {"allOf": [prev]} wrappers
MaxSeed == 1     \* hash seeds 0..MaxSeed

TypeString == Schema1("type", JStr("string"))
StringMin1 == Schema2("type", JStr("string"), "minLength", JNum(1))
ConstFoo == Schema1("const", JStr("foo"))
ConstBar == Schema1("const", JStr("bar"))
TitleOnly == Schema1("title", JStr("X"))
TitledString == Schema2("type", JStr("string"), "title", JStr("X"))

(* The values of the type keyword; the first entry stands for no type keyword. *)
TypeChoices ==
  <<JNull,
    JStr("string"), JStr("integer"), JStr("object"), JStr("array"),
    Strs(<<"string", "string", "number">>),
    Strs(<<"integer", "number">>),
    Strs(<<"string">>),
    Strs(<<"null", "boolean", "object", "array", "number", "string", "integer">>)>>

(* The other keywords with their values, well-formed and malformed. *)
KeywordChoices ==
  <<[k |-> "title", v |-> JStr("X")],
    [k |-> "default", v |-> JNum(1)],
    [k |-> "required", v |-> Strs(<<"foo", "foo">>)],
    [k |-> "required", v |-> Strs(<<"b", "a", "a">>)],
    [k |-> "properties", v |-> Schema1("foo", TitledString)],
    [k |-> "properties", v |-> Schema1("foo", EmptySchema)],
    [k |-> "properties", v |-> JNum(5)],
    [k |-> "patternProperties", v |-> JNum(5)],
    [k |-> "additionalProperties", v |-> JTrue],
    [k |-> "additionalProperties", v |-> TitledString],
    [k |-> "dependencies", v |-> JNum(5)],
    [k |-> "dependencies", v |-> Schema2("a", Strs(<<"c", "b", "b">>), "b", TitledString)],
    [k |-> "minLength", v |-> JNum(1)],
    [k |-> "minLength", v |-> JNum(2)],
    [k |-> "maxLength", v |-> JNum(1)],
    [k |-> "maxLength", v |-> JNum(2)],
    [k |-> "pattern", v |-> JStr("^(foo|bar)$")],
    [k |-> "pattern", v |-> JStr("^(fo+|bar)$")],
    [k |-> "pattern", v |-> JNum(5)],
    [k |-> "multipleOf", v |-> JNum(1)],
    [k |-> "minimum", v |-> JNum(1)],
    [k |-> "exclusiveMinimum", v |-> JTrue],
    [k |-> "minItems", v |-> JNum(0)],
    [k |-> "minItems", v |-> JNum(2)],
    [k |-> "maxItems", v |-> JNum(1)],
    [k |-> "items", v |-> TitledString],
    [k |-> "items", v |-> JArr(<<EmptySchema, JTrue>>)],
    [k |-> "additionalItems", v |-> TitledString],
    [k |-> "contains", v |-> TitleOnly],
    [k |-> "enum", v |-> Strs(<<"foo", "bar">>)],
    [k |-> "enum", v |-> Strs(<<"bar", "foo", "bar">>)],
    [k |-> "enum", v |-> Strs(<<"foo">>)],
    [k |-> "enum", v |-> JArr(<<>>)],
    [k |-> "enum", v |-> JArr(<<JStr("a"), JNum(1)>>)],
    [k |-> "enum", v |-> JArr(<<JNum(1), JTrue>>)],
    [k |-> "enum", v |-> JArr(<<JStr("[1]"), JArr(<<JNum(1)>>)>>)],
    [k |-> "const", v |-> JStr("foo")],
    [k |-> "allOf", v |-> JArr(<<StringMin1>>)],
    [k |-> "allOf", v |-> JArr(<<TypeString, Schema1("minLength", JNum(2))>>)],
    [k |-> "allOf", v |-> JArr(<<JFalse, TypeString>>)],
    [k |-> "allOf", v |-> JArr(<<Schema2("type", JStr("string"), "allOf",
                                         JArr(<<ConstFoo, Schema1("minLength", JNum(1))>>))>>)],
    [k |-> "allOf", v |-> JNum(5)],
    [k |-> "anyOf", v |-> JArr(<<EmptySchema, TypeString>>)],
    [k |-> "anyOf", v |-> JArr(<<JTrue>>)],
    [k |-> "anyOf", v |-> JArr(<<JFalse, TypeString>>)],
    [k |-> "anyOf", v |-> JArr(<<ConstFoo, TypeString>>)],
    [k |-> "anyOf", v |-> JNum(5)],
    [k |-> "oneOf", v |-> JArr(<<ConstFoo, ConstBar>>)],
    [k |-> "oneOf", v |-> JArr(<<ConstBar, ConstFoo, ConstBar>>)],
    [k |-> "oneOf", v |-> JArr(<<TypeString, ConstFoo>>)],
    [k |-> "oneOf", v |-> JArr(<<JNum(5), ConstFoo>>)],
    [k |-> "not", v |-> EmptySchema],
    [k |-> "not", v |-> TypeString],
    [k |-> "not", v |-> Schema1("not", TitledString)],
    [k |-> "not", v |-> Schema1("not", EmptySchema)],
    [k |-> "not", v |-> Schema1("not", NotEmpty)],
    [k |-> "if", v |-> EmptySchema],
    [k |-> "if", v |-> JFalse],
    [k |-> "if", v |-> ConstFoo],
    [k |-> "if", v |-> Schema1("oneOf", JArr(<<ConstFoo, ConstBar>>))],
    [k |-> "then", v |-> StringMin1],
    [k |-> "else", v |-> Schema1("enum", Strs(<<"foo", "bar">>))]>>

(* The schema with type choice ty and the keyword choices i and j (0: none). *)
Pick(ty, i, j) ==
  LET t1 == IF ty = 1 THEN <<>> ELSE ("type" :> TypeChoices[ty])
      k1 == IF i = 0 THEN <<>> ELSE (KeywordChoices[i].k :> KeywordChoices[i].v)
      k2 == IF j = 0 THEN <<>> ELSE (KeywordChoices[j].k :> KeywordChoices[j].v)
  IN JObj(t1 @@ k1 @@ k2)

(* leaf wrapped n times as {"allOf": [prev]} *)
RECURSIVE Wrap(_, _)
Wrap(leaf, n) == IF n = 0 THEN leaf ELSE Schema1("allOf", JArr(<<Wrap(leaf, n - 1)>>))

(* Top-level arguments that are neither a dict nor a bool. *)
OtherKinds == <<JNum(5), JStr("foo"), JNull, JArr(<<JNum(1)>>)>>

IsInput(s) ==
  \/ \E ty \in 1..Len(TypeChoices), i, j \in 0..Len(KeywordChoices) :
        /\ i = 0 => j = 0
        /\ i # 0 /\ j # 0 => i < j /\ KeywordChoices[i].k # KeywordChoices[j].k
        /\ s = Pick(ty, i, j)
  \/ \E n \in 1..MaxNest : s \in {Wrap(TypeString, n), Wrap(StringMin1, n)}
  \/ s \in {JTrue, JFalse}
  \/ \E i \in 1..Len(OtherKinds) : s = OtherKinds[i]

----------------------------------------------------------------------------
(* The caller: one process normalizes S and normalizes the result again; a
   second process, started with a seed of its own, normalizes S once more. *)

NotRun == Out([t |-> "unset"], 0, 0)

(* validate(instance, schema) raises ValidationError or returns *)
validate_schema(s, instance) == Accepts(s, instance)

validate_equivalence(original_schema, normalized_schema, instances) ==
  LET valid(s) == \A i \in 1..Len(instances) : validate_schema(s, instances[i])
      compared(original_valid, normalized_valid) ==
        IF original_valid = normalized_valid
        THEN [t |-> "return", original_valid |-> original_valid,
              normalized_valid |-> normalized_valid]
        ELSE Exc("AssertionError")
  IN compared(valid(original_schema), valid(normalized_schema))

(* The corpora of the caller: all the instances, the strings, the numbers. *)
Corpora == {Corpus, SubSeq(Corpus, 1, 4), SubSeq(Corpus, 5, 7)}

Init ==
  /\ IsInput(schema)
  /\ hashSeed \in 0..MaxSeed
  /\ result = NotRun
  /\ again = NotRun
  /\ rerun = NotRun
  /\ notnot = NotRun
  /\ argument = schema
  /\ aliased = FALSE
  /\ test_instances = <<>>
  /\ verdict = [t |-> "unset"]
  /\ pc = "ready"

(* return schema: an argument that is neither a bool nor a dict is returned
   itself; for a bool a new dict is returned, and for a dict the result built
   on copy.deepcopy(schema). *)
returns_argument(s) == ~IsBool(s) /\ ~IsDict(s)

(* The passes write to the deep copy, so the caller's object is as it was. *)
Normalize ==
  /\ pc = "ready"
  /\ result' = normalize(schema)
  /\ argument' = schema
  /\ aliased' = returns_argument(schema)
  /\ pc' = "normalized"
  /\ UNCHANGED <<schema, hashSeed, again, rerun, notnot, test_instances, verdict>>

NormalizeAgain ==
  /\ pc = "normalized"
  /\ ~Raised(result.val)
  /\ again' = normalize(result.val)
  /\ pc' = "renormalized"
  /\ UNCHANGED <<schema, hashSeed, result, rerun, notnot, argument, aliased,
                 test_instances, verdict>>

Restart ==
  /\ pc = "normalized"
  /\ hashSeed' \in 0..MaxSeed
  /\ pc' = "restarted"
  /\ UNCHANGED <<schema, result, again, rerun, notnot, argument, aliased,
                 test_instances, verdict>>

Rerun ==
  /\ pc = "restarted"
  /\ rerun' = normalize(schema)
  /\ pc' = "rerun"
  /\ UNCHANGED <<schema, hashSeed, result, again, notnot, argument, aliased,
                 test_instances, verdict>>

(* The caller normalizes the double negation of S. *)
NormalizeNotNot ==
  /\ pc = "normalized"
  /\ notnot' = normalize(Schema1("not", Schema1("not", schema)))
  /\ pc' = "unwrapped"
  /\ UNCHANGED <<schema, hashSeed, result, again, rerun, argument, aliased,
                 test_instances, verdict>>

(* The caller hands S and normalize(S) to the oracle, with one of its corpora;
   both are schemas the validator has a rule for. *)
ValidateEquivalence ==
  /\ pc = "normalized"
  /\ ~Raised(result.val)
  /\ InVocabulary(schema) /\ InVocabulary(result.val)
  /\ test_instances' \in Corpora
  /\ verdict' = validate_equivalence(schema, result.val, test_instances')
  /\ pc' = "validated"
  /\ UNCHANGED <<schema, hashSeed, result, again, rerun, notnot, argument, aliased>>

Next ==
  \/ Normalize \/ NormalizeAgain \/ Restart \/ Rerun
  \/ NormalizeNotNot \/ ValidateEquivalence

Spec == Init /\ [][Next]_vars

----------------------------------------------------------------------------
(* Properties *)

Returned == pc = "normalized" /\ ~Raised(result.val)

(* s < t < ... : a list in ascending order without duplicates *)
Ascending(seq) == \A i, j \in 1..Len(seq) : i < j => PyCompare(seq[i], seq[j]) = "lt"

(* C1: normalize(normalize(S)) == normalize(S) whenever normalize(S) returns. *)
C1_Idempotent == pc = "renormalized" => again.val = result.val

(* C2: S and normalize(S) accept the same instances of the corpus. *)
C2_AcceptancePreserved ==
  Returned /\ InVocabulary(schema) /\ InVocabulary(result.val) =>
    \A i \in 1..Len(Corpus) : Accepts(schema, Corpus[i]) <=> Accepts(result.val, Corpus[i])

(* C3: a second run of normalize(S), in another process, yields the output of
   the first, the order of every enum included. *)
C3_Deterministic == pc = "rerun" => rerun.val = result.val

(* C4: true and {} normalize to one form, false and {"not": {}} to another one. *)
C4_UniversalForms ==
  pc = "normalized" =>
    /\ schema = JTrue \/ schema = EmptySchema => result.val = EmptySchema
    /\ schema = JFalse \/ schema = NotEmpty => result.val = NotEmpty
    /\ EmptySchema # NotEmpty

C4_Witness == pc = "normalized" /\ schema = NotEmpty /\ result.val = NotEmpty

(* C5: an argument that is neither a bool nor a dict makes normalize fail with
   InvalidInputKind. *)
C5_InvalidInputKind ==
  pc = "normalized" /\ ~IsDict(schema) /\ ~IsBool(schema) =>
    result.val = Exc("InvalidInputKind")

(* The names in a type keyword that is a string or a list of strings. *)
TypeNames(v) == IF IsStr(v) THEN {v.s} ELSE {v.a[i].s : i \in 1..Len(v.a)}

(* A keyword whose value has not the shape its pass expects. *)
Malformed(k, v) ==
  \/ k \in {"properties", "patternProperties", "dependencies"} /\ ~IsDict(v)
  \/ k \in {"allOf", "anyOf", "oneOf"} /\ ~IsList(v)
  \/ k = "pattern" /\ ~IsStr(v)

(* C6: on a bool or a dict normalize returns, and a malformed keyword of the
   dict is in the output as it was. (Stated for the dicts whose type is not the
   list of all seven names, which the type pass treats on its own.) *)
C6_NeverRaises ==
  /\ pc = "normalized" /\ IsBool(schema) => ~Raised(result.val)
  /\ pc = "normalized" /\ IsDict(schema)
       /\ (Has(schema, "type") => TypeNames(Get(schema, "type")) # all_types) =>
         /\ ~Raised(result.val)
         /\ \A k \in Keys(schema) :
              Malformed(k, Get(schema, k)) =>
                Has(result.val, k) /\ Get(result.val, k) = Get(schema, k)

(* The const values of a oneOf made of two or more single-key const branches. *)
IsOneOfConsts(s) ==
  /\ IsDict(s) /\ Keys(s) = {"oneOf"} /\ IsList(Get(s, "oneOf"))
  /\ Len(Get(s, "oneOf").a) >= 2
  /\ \A i \in 1..Len(Get(s, "oneOf").a) :
       IsDict(Get(s, "oneOf").a[i]) /\ Keys(Get(s, "oneOf").a[i]) = {"const"}

OneOfConsts(s) == [i \in 1..Len(Get(s, "oneOf").a) |-> Get(Get(s, "oneOf").a[i], "const")]

(* C7: a oneOf of const branches becomes the enum of the constants, without
   duplicates and sorted, which is also what the enum of the same constants
   normalizes to. *)
C7_OneOfToEnum ==
  pc = "normalized" /\ IsOneOfConsts(schema) =>
    /\ result.val = Schema1("enum", JArr(PySorted(PyDedup(OneOfConsts(schema)))))
    /\ result.val = normalize(Schema1("enum", JArr(OneOfConsts(schema)))).val

(* C8: the required list of the output is ascending without duplicates, and
   the title beside it is gone, whatever the type. *)
C8_RequiredSorted ==
  Returned /\ IsDict(schema) /\ Has(schema, "required") /\ Has(result.val, "required") =>
    /\ IsList(Get(result.val, "required"))
    /\ Ascending(Get(result.val, "required").a)
    /\ ~Has(result.val, "title")

(* C9: the type of the output is a single name, or an ascending list without
   duplicates of two or more names (of none, for an empty list). *)
C9_TypeCanonical ==
  Returned /\ IsDict(schema) /\ Has(schema, "type") /\ TypeNames(Get(schema, "type")) # all_types
    /\ Has(result.val, "type") =>
      \/ IsStr(Get(result.val, "type"))
      \/ /\ IsList(Get(result.val, "type"))
         /\ Ascending(Get(result.val, "type").a)
         /\ Len(Get(result.val, "type").a) # 1

C9_Witness ==
  /\ Returned
  /\ schema = Schema1("type", Strs(<<"string", "string", "number">>))
  /\ result.val = Schema1("type", Strs(<<"number", "string">>))

C11_DoubleNegation ==
  pc = "unwrapped" /\ (IsDict(schema) \/ IsBool(schema)) /\ ~Raised(result.val) =>
    notnot.val = result.val

(* The nodes the string pass reads: a dict without a type, or whose type is or
   lists "string". *)
StringNode(s) ==
  IsDict(s) /\ (Has(s, "type") => "string" \in TypeNames(Get(s, "type")))

(* C12: a string node with minLength > maxLength normalizes to {"not": {}};
   with minLength <= maxLength both keywords are in the output as they were. *)
C12_LengthBounds ==
  Returned /\ StringNode(schema) /\ Has(schema, "minLength") /\ Has(schema, "maxLength") =>
    IF Get(schema, "minLength").h > Get(schema, "maxLength").h
    THEN result.val = NotEmpty
    ELSE /\ IsDict(result.val)
         /\ Has(result.val, "minLength") /\ Has(result.val, "maxLength")
         /\ Get(result.val, "minLength") = Get(schema, "minLength")
         /\ Get(result.val, "maxLength") = Get(schema, "maxLength")

(* The number of values in the tree v, and the number of dicts, lists and
   bools on its longest path from the root. *)
RECURSIVE Size(_)
RECURSIVE SizeOfEntries(_, _)
Size(v) ==
  CASE IsDict(v) -> 1 + SizeOfEntries(v, Keys(v))
    [] IsList(v) -> 1 + SizeOfEntries(v, 1..Len(v.a))
    [] OTHER -> 1

SizeOfEntries(v, ks) ==
  LET entry(k) == IF IsDict(v) THEN Get(v, k) ELSE v.a[k]
      from(k) == Size(entry(k)) + SizeOfEntries(v, ks \ {k})
  IN IF ks = {} THEN 0 ELSE from(CHOOSE k \in ks : TRUE)

RECURSIVE Height(_)
Height(v) ==
  LET deepest(hs) == IF hs = {} THEN 0 ELSE CHOOSE h \in hs : \A g \in hs : g <= h
  IN CASE IsDict(v) -> 1 + deepest({Height(Get(v, k)) : k \in Keys(v)})
       [] IsList(v) -> 1 + deepest({Height(v.a[i]) : i \in 1..Len(v.a)})
       [] IsBool(v) -> 1
       [] OTHER -> 0

(* C13: normalize ends on every schema of the model, and the normalize calls
   it makes are nested no deeper than the tree it was given and are at most
   twice as many as the values of that tree: each call is made on a part of
   the node at hand. *)
C13_Terminates ==
  /\ pc = "normalized" /\ (IsDict(schema) \/ IsBool(schema)) =>
       /\ 1 <= result.depth /\ result.depth <= result.calls
       /\ result.depth <= Height(schema)
       /\ result.calls <= 2 * Size(schema)
  /\ pc = "unwrapped" /\ (IsDict(schema) \/ IsBool(schema)) =>
       /\ 1 <= notnot.depth /\ notnot.depth <= notnot.calls
       /\ notnot.depth <= Height(schema) + 2
       /\ notnot.calls <= 2 * (Size(schema) + 2)

C13_Witness ==
  /\ pc = "unwrapped"
  /\ schema = Schema2("not", Schema1("not", EmptySchema), "if", JFalse)
  /\ notnot.calls = 8 /\ notnot.depth = 5

(* C14: validate_equivalence fails its assertion exactly when some instance of
   the corpus is accepted by one of the two schemas and rejected by the other. *)
C14_EquivalenceOracle ==
  pc = "validated" =>
    (verdict = Exc("AssertionError")
       <=> \E i \in 1..Len(test_instances) :
             Accepts(schema, test_instances[i]) # Accepts(result.val, test_instances[i]))

(* C15: after normalize(S) the caller's S is equal to what it was, and the
   object returned is not S itself when S is a list or a dict. *)
C15_ArgumentUntouched ==
  pc # "ready" =>
    /\ argument = schema
    /\ ~(aliased /\ (IsList(schema) \/ IsDict(schema)))

(* C16: a type list with both "integer" and "number" loses "integer" and
   nothing else, and multipleOf is in the output iff it was in the input, with
   the value it had. *)
C16_IntegerNumber ==
  Returned /\ IsDict(schema) /\ Has(schema, "type") /\ IsList(Get(schema, "type"))
    /\ {"integer", "number"} \subseteq TypeNames(Get(schema, "type")) =>
      /\ Has(result.val, "type")
      /\ TypeNames(Get(result.val, "type")) = TypeNames(Get(schema, "type")) \ {"integer"}
      /\ Has(result.val, "multipleOf") <=> Has(schema, "multipleOf")
      /\ Has(schema, "multipleOf") =>
           Get(result.val, "multipleOf") = Get(schema, "multipleOf")

(* C17: a dict whose type lists all seven names, and whose other keywords are
   well-formed, is normalized without an exception to a dict without type. *)
C17_TypeUniverse ==
  pc = "normalized" /\ IsDict(schema) /\ Has(schema, "type")
    /\ IsList(Get(schema, "type")) /\ TypeNames(Get(schema, "type")) = all_types
    /\ (\A k \in Keys(schema) : ~Malformed(k, Get(schema, k))) =>
      /\ ~Raised(result.val)
      /\ IsDict(result.val) /\ ~Has(result.val, "type")

(* C18: every name of the input's required list is in the output's required
   list, whatever the properties keyword defines. *)
C18_RequiredRetained ==
  Returned /\ IsDict(schema) /\ Has(schema, "required") /\ IsList(Get(schema, "required")) =>
    /\ IsDict(result.val) /\ Has(result.val, "required")
    /\ \A i \in 1..Len(Get(schema, "required").a) :
         InSeq(Get(schema, "required").a[i], Get(result.val, "required").a)

(* C19: a dict with an allOf branch that is false, or that normalizes to
   {"not": {}}, normalizes to {"not": {}}. *)
C19_AllOfAbsorption ==
  Returned /\ IsDict(schema) /\ Has(schema, "allOf") /\ IsList(Get(schema, "allOf"))
    /\ (\E i \in 1..Len(Get(schema, "allOf").a) :
          normalize(Get(schema, "allOf").a[i]).val = NotEmpty) =>
      result.val = NotEmpty

(* The branches of an anyOf, each normalized. *)
AnyOfBranches(s) ==
  [i \in 1..Len(Get(s, "anyOf").a) |-> normalize(Get(s, "anyOf").a[i]).val]

(* C20: a dict whose only keyword is an anyOf of schemas normalizes to {} when
   a branch normalizes to {}, to {"not": {}} when every branch normalizes to
   {"not": {}}, and otherwise to a schema other than {"not": {}} whose anyOf,
   if it has one, has no {"not": {}} branch. *)
C20_AnyOf ==
  Returned /\ IsDict(schema) /\ Keys(schema) = {"anyOf"} /\ IsList(Get(schema, "anyOf"))
    /\ (\A i \in 1..Len(Get(schema, "anyOf").a) :
          IsDict(Get(schema, "anyOf").a[i]) \/ IsBool(Get(schema, "anyOf").a[i])) =>
      IF InSeq(EmptySchema, AnyOfBranches(schema)) THEN result.val = EmptySchema
      ELSE IF \A i \in 1..Len(AnyOfBranches(schema)) : AnyOfBranches(schema)[i] = NotEmpty
      THEN result.val = NotEmpty
      ELSE /\ result.val # NotEmpty
           /\ IsDict(result.val)
           /\ Has(result.val, "anyOf") => ~InSeq(NotEmpty, Get(result.val, "anyOf").a)

(* The values of a list, as a set: equal JSON values are one member. *)
Members(l) == {l.a[i] : i \in 1..Len(l.a)}

(* C21: a dict whose only keyword is an enum of one distinct value normalizes
   to the const of that value, and one whose enum is empty to {"not": {}}. *)
C21_EnumConst ==
  pc = "normalized" /\ IsDict(schema) /\ Keys(schema) = {"enum"} /\ IsList(Get(schema, "enum")) =>
    /\ Cardinality(Members(Get(schema, "enum"))) = 1 =>
         \E v \in Members(Get(schema, "enum")) : result.val = Schema1("const", v)
    /\ Members(Get(schema, "enum")) = {} => result.val = NotEmpty

(* The total order of JSON values: null < false < true < number < string <
   array < object, then by value for numbers and strings. *)
JsonRank(v) ==
  CASE v.t = "null" -> 0
    [] v.t = "bool" -> IF v.b THEN 2 ELSE 1
    [] v.t = "num" -> 3
    [] v.t = "str" -> 4
    [] v.t = "arr" -> 5
    [] v.t = "obj" -> 6

JsonBefore(x, y) ==
  \/ JsonRank(x) < JsonRank(y)
  \/ x.t = "num" /\ y.t = "num" /\ x.h < y.h
  \/ x.t = "str" /\ y.t = "str" /\ StrRank(x.s) < StrRank(y.s)

(* C22: a dict whose only keyword is an enum of two or more distinct values
   normalizes to the enum of exactly those values, each once, in the total
   order of JSON values. *)
C22_EnumOrder ==
  pc = "normalized" /\ IsDict(schema) /\ Keys(schema) = {"enum"} /\ IsList(Get(schema, "enum"))
    /\ Cardinality(Members(Get(schema, "enum"))) >= 2 =>
      /\ IsDict(result.val) /\ Keys(result.val) = {"enum"} /\ IsList(Get(result.val, "enum"))
      /\ Members(Get(result.val, "enum")) = Members(Get(schema, "enum"))
      /\ \A i, j \in 1..Len(Get(result.val, "enum").a) :
           i < j => JsonBefore(Get(result.val, "enum").a[i], Get(result.val, "enum").a[j])

(* The ten keywords that carry no validation. *)
NonValidationKeywords ==
  {"title", "description", "$comment", "examples", "default",
   "readOnly", "writeOnly", "deprecated", "$id", "$schema"}

(* C23: the top level of the output of normalize has none of the ten
   non-validation keywords, and a dict that has only such keywords normalizes
   to the empty schema. *)
C23_StripMetadata ==
  Returned /\ IsDict(schema) /\ IsDict(result.val) =>
    /\ Keys(result.val) \cap NonValidationKeywords = {}
    /\ Keys(schema) # {} /\ Keys(schema) \subseteq NonValidationKeywords => result.val = EmptySchema

(* C24: whatever the type keyword of the parent, each property schema that
   remains in the output is the normalized form of the input's property
   schema of that name. *)
C24_ChildrenBeforeParent ==
  Returned /\ IsDict(schema) /\ IsDict(result.val)
    /\ Keys(schema) \subseteq {"type", "properties"}
    /\ Has(schema, "properties") /\ IsDict(Get(schema, "properties"))
    /\ Has(result.val, "properties") /\ IsDict(Get(result.val, "properties")) =>
      \A name \in Keys(Get(result.val, "properties")) \cap Keys(Get(schema, "properties")) :
        Get(Get(result.val, "properties"), name) = normalize(Get(Get(schema, "properties"), name)).val

(* A dict whose allOf has one branch, and no other combinator. *)
SingleAllOf(s) ==
  /\ IsDict(s) /\ Has(s, "allOf") /\ IsList(Get(s, "allOf")) /\ Len(Get(s, "allOf").a) = 1
  /\ Keys(s) \cap {"anyOf", "oneOf", "not", "if", "then", "else"} = {}

(* The keywords, other than type, required and properties, that parent s and
   branch b both have, with different values. *)
Conflicts(s, b) ==
  {k \in (Keys(s) \cap Keys(b)) \ {"allOf", "type", "required", "properties"} : Get(s, k) # Get(b, k)}

(* C25: when the single branch of an allOf is merged into a parent that has a
   keyword of the branch, neither value is discarded: the output's allOf has
   {k: parent's value} and {k: branch's value}; for type, the output has the
   names of both. *)
C25_MergePolicy ==
  Returned /\ SingleAllOf(schema) /\ IsDict(result.val)
    /\ IsDict(normalize(Get(schema, "allOf").a[1]).val)
    /\ ~Has(normalize(Get(schema, "allOf").a[1]).val, "allOf") =>
      /\ \A k \in Conflicts(schema, normalize(Get(schema, "allOf").a[1]).val) :
           /\ Has(result.val, "allOf") /\ IsList(Get(result.val, "allOf"))
           /\ Schema1(k, Get(schema, k)) \in Members(Get(result.val, "allOf"))
           /\ Schema1(k, Get(normalize(Get(schema, "allOf").a[1]).val, k)) \in Members(Get(result.val, "allOf"))
      /\ Has(schema, "type") /\ Has(normalize(Get(schema, "allOf").a[1]).val, "type") =>
           /\ Has(result.val, "type")
           /\ TypeNames(Get(result.val, "type")) =
                TypeNames(Get(schema, "type")) \cup TypeNames(Get(normalize(Get(schema, "allOf").a[1]).val, "type"))

(* Keyword k with value v is a conjunct of node r: r has it at its top level or
   in a member of its allOf. *)
Conjunct(r, k, v) ==
  \/ Has(r, k) /\ Get(r, k) = v
  \/ /\ Has(r, "allOf") /\ IsList(Get(r, "allOf"))
     /\ \E m \in Members(Get(r, "allOf")) : IsDict(m) /\ Has(m, k) /\ Get(m, k) = v

(* C26: when a branch of an allOf normalizes to a node with an allOf and other
   keywords, the output still has each of those other keywords as a conjunct;
   and an allOf whose branches all normalize to {} is removed. *)
C26_FlattenKeeps ==
  Returned /\ IsDict(schema) /\ IsDict(result.val) /\ Keys(schema) = {"allOf"}
    /\ IsList(Get(schema, "allOf")) =>
      /\ \A i \in 1..Len(Get(schema, "allOf").a) :
           IsDict(normalize(Get(schema, "allOf").a[i]).val)
             /\ Has(normalize(Get(schema, "allOf").a[i]).val, "allOf") =>
               \A k \in Keys(normalize(Get(schema, "allOf").a[i]).val) \ {"allOf"} :
                 Conjunct(result.val, k, Get(normalize(Get(schema, "allOf").a[i]).val, k))
      /\ (\A i \in 1..Len(Get(schema, "allOf").a) :
            normalize(Get(schema, "allOf").a[i]).val = EmptySchema) => ~Has(result.val, "allOf")

====
